---- MODULE Spec2Model ----
(***************************************************************************)
(* Bill parser (YaW.py): the line-classification pass of process_txt_file  *)
(* and the file-name loop of run_main_loop.                                *)
(*                                                                         *)
(* Text is a sequence of one-character strings.  The two regular           *)
(* expressions are modelled by the set of their parses, from which the     *)
(* backtracking engine's first match is chosen.                            *)
(***************************************************************************)
EXTENDS Integers, Sequences, FiniteSets, TLC

\* ------------------------------------------------------------------ bounds
\* longest physical line of the exhaustively enumerated one-line files
MaxLen == 6
\* most physical lines of a file built from SampleLines
MaxLines == 4
\* longest file name typed at the prompt
MaxName == 5

\* ------------------------------------------------------------ text helpers
Digits == {"0", "1", "2", "3", "4", "5", "6", "7", "8", "9"}

\* \d of the re module
IsDigit(c) == c \in Digits

\* [\d.] : one character of a quantity's number or of a price
IsPriceChar(c) == IsDigit(c) \/ c = "."

\* \s of the re module, and what str.strip() removes
IsSpace(c) == c \in {" ", "\t", "\n", "\r"}

SetMin(S) == CHOOSE x \in S : \A y \in S : x <= y

SetMax(S) == CHOOSE x \in S : \A y \in S : y <= x

\* str.strip()
Strip(s) ==
    LET keep == {i \in 1..Len(s) : ~IsSpace(s[i])}
    IN  IF keep = {} THEN <<>> ELSE SubSeq(s, SetMin(keep), SetMax(keep))

\* str.count(c) for a one-character c
Count(s, c) == Cardinality({i \in 1..Len(s) : s[i] = c})

\* ------------------------------------------------------- regular expressions
\* (?:kg|pcs|set|p)
Units == {<<"k", "g">>, <<"p", "c", "s">>, <<"s", "e", "t">>, <<"p">>}

\* [\d.]+(?:kg|pcs|set|p)?\.?  matched against the whole of s
IsQuantity(s) ==
    \E d \in 1..Len(s) :
        /\ \A n \in 1..d : IsPriceChar(s[n])
        /\ \E u \in Units \cup {<<>>}, dot \in {<<>>, <<".">>} :
              SubSeq(s, d + 1, Len(s)) = u \o dot

\* last index of the greedy run [\d.]+ starting at i (i - 1 when it is empty)
RunEnd(t, i) ==
    LET ends == {j \in i..Len(t) : \A n \in i..j : IsPriceChar(t[n])}
    IN  IF ends = {} THEN i - 1 ELSE SetMax(ends)

\* the price written [\d.]* : a '$' with nothing numeric behind it is accepted
PricedDollarsEmptyPrice(t) == {d \in 1..Len(t) : t[d] = "$"}

\* the patterns anchored at the end of the line ([\d.]+$, as with fullmatch)
PricedDollarsAnchored(t) ==
    {d \in 1..Len(t) :
        /\ t[d] = "$"
        /\ d < Len(t)
        /\ \A n \in (d + 1)..Len(t) : IsPriceChar(t[n])}

\* positions of a '$' that is followed by at least one price character
PricedDollars(t) ==
    {d \in 1..Len(t) : t[d] = "$" /\ d < Len(t) /\ IsPriceChar(t[d + 1])}

\* t[i..j] is whitespace only (true of the empty range)
AllSpace(t, i, j) == \A n \in i..j : IsSpace(t[n])

\* every way pattern_full matches a prefix of t: the name (.+?) is t[1..k],
\* \s+ is t[k+1..q-1], the quantity t[q..e], \s* is t[e+1..d-1], the '$' is
\* at d
FullParses(t) ==
    UNION { UNION { UNION {
        { [k |-> k, q |-> q, e |-> e, d |-> d] :
            k \in {k \in 1..(q - 2) :
                      /\ \A n \in 1..k : t[n] # "\n"
                      /\ AllSpace(t, k + 1, q - 1)} }
        : q \in {q \in 2..e : IsQuantity(SubSeq(t, q, e))} }
        : e \in {e \in 1..(d - 1) : AllSpace(t, e + 1, d - 1)} }
        : d \in PricedDollars(t) }

\* every way pattern_short matches a prefix of t: the name (.+?) is t[1..k],
\* \s* is t[k+1..d-1], the '$' is at d
ShortParses(t) ==
    UNION {
        { [k |-> k, d |-> d] :
            k \in {k \in 1..(d - 1) :
                      /\ \A n \in 1..k : t[n] # "\n"
                      /\ AllSpace(t, k + 1, d - 1)} }
        : d \in PricedDollars(t) }

NoMatch == [ok |-> FALSE, name |-> <<>>, qty |-> <<>>, price |-> <<>>, end |-> 0]

\* the parse the engine returns: (.+?) is non-greedy, so the shortest name
\* that lets the rest match wins; for one name length the rest is determined
\* (the whitespace runs are maximal, the quantity holds neither blank nor '$')
FirstParse(parses) == CHOOSE p \in parses : \A o \in parses : p.k <= o.k

\* pattern_full.match(text)
FullMatch(t) ==
    LET parses == FullParses(t)
        p      == FirstParse(parses)
    IN  IF parses = {} THEN NoMatch
        ELSE [ok |-> TRUE,
              name |-> SubSeq(t, 1, p.k),
              qty |-> SubSeq(t, p.q, p.e),
              price |-> SubSeq(t, p.d + 1, RunEnd(t, p.d + 1)),
              end |-> RunEnd(t, p.d + 1)]

\* pattern_short.match(text)
ShortMatch(t) ==
    LET parses == ShortParses(t)
        p      == FirstParse(parses)
    IN  IF parses = {} THEN NoMatch
        ELSE [ok |-> TRUE,
              name |-> SubSeq(t, 1, p.k),
              qty |-> <<>>,
              price |-> SubSeq(t, p.d + 1, RunEnd(t, p.d + 1)),
              end |-> RunEnd(t, p.d + 1)]

\* ------------------------------------------------------------------ float()
\* float(price) succeeds: for a string of digits and dots, exactly when it
\* holds at most one dot and at least one digit
FloatOk(s) ==
    /\ \A n \in 1..Len(s) : IsPriceChar(s[n])
    /\ Count(s, ".") <= 1
    /\ \E n \in 1..Len(s) : IsDigit(s[n])

\* digits a price can carry after its dot: a line spends two characters on
\* the name and the '$'
FracDigits == MaxLen - 2

DigitVal(c) ==
    CASE c = "0" -> 0 [] c = "1" -> 1 [] c = "2" -> 2 [] c = "3" -> 3
      [] c = "4" -> 4 [] c = "5" -> 5 [] c = "6" -> 6 [] c = "7" -> 7
      [] c = "8" -> 8 [] c = "9" -> 9

RECURSIVE Pow10(_)
Pow10(n) == IF n = 0 THEN 1 ELSE 10 * Pow10(n - 1)

RECURSIVE IntOf(_)
\* value of a run of digits (0 for the empty run)
IntOf(s) ==
    IF s = <<>> THEN 0
    ELSE 10 * IntOf(SubSeq(s, 1, Len(s) - 1)) + DigitVal(s[Len(s)])

\* float(price), as the exact decimal it denotes, in units of 10^-FracDigits
FloatVal(s) ==
    LET dots == {i \in 1..Len(s) : s[i] = "."}
        dot  == IF dots = {} THEN Len(s) + 1 ELSE SetMin(dots)
        int  == SubSeq(s, 1, dot - 1)
        frac == SubSeq(s, dot + 1, Len(s))
    IN  IntOf(int) * Pow10(FracDigits) + IntOf(frac) * Pow10(FracDigits - Len(frac))

\* ------------------------------------------------------------ the line pass
VARIABLES
    lines,         \* f.readlines(), each line without its terminator
    idx,           \* lines consumed by the for loop so far
    total_lines,
    valid_lines,
    grand_total,   \* in units of 10^-FracDigits
    excel_rows,    \* the rows: category and item records, in emission order
    error_lines,   \* the diagnostics: [idx, kind, text]
    pc             \* "loop" while the for loop runs, "done" after it

VARIABLES
    mpc,           \* position in run_main_loop ("error": the error box is up)
    txt_input,     \* the file name, ".txt" appended
    file_path,
    title_input,
    files,         \* paths for which os.path.isfile holds
    docx_path,     \* paths returned by process_txt_file
    excel_path

passVars == <<lines, idx, total_lines, valid_lines, grand_total, excel_rows,
              error_lines, pc>>

mainVars == <<mpc, txt_input, file_path, title_input, files, docx_path,
              excel_path>>

vars == <<passVars, mainVars>>

\* no line counts as blank
IsBlankNever(text) == FALSE

\* `if not text`
IsBlank(text) == text = <<>>

\* the threshold off by one
MultiMarkerOverTwo(text) == Count(text, "$") > 2

\* `text.count('$') > 1`
MultiMarker(text) == Count(text, "$") > 1

CategoryRow(name) ==
    [typ |-> "category", name |-> name, qty |-> <<>>, price |-> <<>>]

ItemRow(name, qty, price) ==
    [typ |-> "item", name |-> Strip(name), qty |-> Strip(qty), price |-> Strip(price)]

ErrorLine(i, kind, text) == [idx |-> i, kind |-> kind, text |-> text]

\* the category test without its `'$' not in text`
ClassifyNoMarkerTest(text) ==
    LET m_full  == FullMatch(text)
        m_short == ShortMatch(text)
    IN  IF ~m_full.ok /\ ~m_short.ok
        THEN [kind |-> "category", name |-> text, qty |-> <<>>, price |-> <<>>]
        ELSE IF m_full.ok
        THEN [kind |-> "item", name |-> m_full.name, qty |-> m_full.qty,
              price |-> m_full.price]
        ELSE [kind |-> "item", name |-> m_short.name, qty |-> <<>>,
              price |-> m_short.price]

\* the short pattern tried before the full one
ClassifyShortFirst(text) ==
    LET m_full  == FullMatch(text)
        m_short == ShortMatch(text)
    IN  IF ~m_full.ok /\ ~m_short.ok /\ Count(text, "$") = 0
        THEN [kind |-> "category", name |-> text, qty |-> <<>>, price |-> <<>>]
        ELSE IF m_short.ok
        THEN [kind |-> "item", name |-> m_short.name, qty |-> <<>>,
              price |-> m_short.price]
        ELSE IF m_full.ok
        THEN [kind |-> "item", name |-> m_full.name, qty |-> m_full.qty,
              price |-> m_full.price]
        ELSE [kind |-> "error", name |-> <<>>, qty |-> <<>>, price |-> <<>>]

\* the decision of lines 110-129 for a stripped line
Classify(text) ==
    LET m_full  == FullMatch(text)
        m_short == ShortMatch(text)
    IN  IF ~m_full.ok /\ ~m_short.ok /\ Count(text, "$") = 0
        THEN [kind |-> "category", name |-> text, qty |-> <<>>, price |-> <<>>]
        ELSE IF m_full.ok
        THEN [kind |-> "item", name |-> m_full.name, qty |-> m_full.qty,
              price |-> m_full.price]
        ELSE IF m_short.ok
        THEN [kind |-> "item", name |-> m_short.name, qty |-> <<>>,
              price |-> m_short.price]
        ELSE [kind |-> "error", name |-> <<>>, qty |-> <<>>, price |-> <<>>]

\* valid_lines incremented before float() is tried
PriceStepCountsFailed(valid, total, price) ==
    IF FloatOk(price)
    THEN [valid |-> valid + 1, total |-> total + FloatVal(price), failed |-> FALSE]
    ELSE [valid |-> valid + 1, total |-> total, failed |-> TRUE]

\* the parsed price never added to the total
PriceStepDropsTotal(valid, total, price) ==
    IF FloatOk(price)
    THEN [valid |-> valid + 1, total |-> total, failed |-> FALSE]
    ELSE [valid |-> valid, total |-> total, failed |-> TRUE]

\* the try/except around float(price)
PriceStep(valid, total, price) ==
    IF FloatOk(price)
    THEN [valid |-> valid + 1, total |-> total + FloatVal(price), failed |-> FALSE]
    ELSE [valid |-> valid, total |-> total, failed |-> TRUE]

\* excel_rows.insert(0, row)
AppendRowFront(rows, row) == <<row>> \o rows

\* excel_rows.append(row)
AppendRow(rows, row) == Append(rows, row)

\* error_lines.append(msg)
AppendError(errors, msg) == Append(errors, msg)

\* one iteration of `for idx, line in enumerate(lines, 1)`
ProcessLine ==
    /\ pc = "loop"
    /\ idx < Len(lines)
    /\ idx' = idx + 1
    /\ total_lines' = total_lines + 1
    /\ LET i    == idx + 1
           text == Strip(lines[i])
           c    == Classify(text)
           acc  == PriceStep(valid_lines, grand_total, c.price)
       IN  IF IsBlank(text)
           THEN UNCHANGED <<valid_lines, grand_total, excel_rows, error_lines>>
           ELSE IF MultiMarker(text)
           THEN /\ error_lines' = AppendError(error_lines, ErrorLine(i, "multi", text))
                /\ UNCHANGED <<valid_lines, grand_total, excel_rows>>
           ELSE IF c.kind = "category"
           THEN /\ excel_rows' = AppendRow(excel_rows, CategoryRow(c.name))
                /\ UNCHANGED <<valid_lines, grand_total, error_lines>>
           ELSE IF c.kind = "error"
           THEN /\ error_lines' = AppendError(error_lines, ErrorLine(i, "unparse", text))
                /\ UNCHANGED <<valid_lines, grand_total, excel_rows>>
           ELSE /\ excel_rows' = AppendRow(excel_rows, ItemRow(c.name, c.qty, c.price))
                /\ valid_lines' = acc.valid
                /\ grand_total' = acc.total
                /\ error_lines' = IF acc.failed
                                  THEN AppendError(error_lines, ErrorLine(i, "price", c.price))
                                  ELSE error_lines
    /\ UNCHANGED <<lines, pc>>
    /\ UNCHANGED mainVars

\* the loop is exhausted: the totals are rendered and returned
Finish ==
    /\ pc = "loop"
    /\ idx = Len(lines)
    /\ pc' = "done"
    /\ UNCHANGED <<lines, idx, total_lines, valid_lines, grand_total, excel_rows,
                   error_lines>>
    /\ UNCHANGED mainVars

\* ------------------------------------------------------------- file names
\* str.lower() on the letters the modelled names use
LowerChar(c) ==
    CASE c = "T" -> "t" [] c = "X" -> "x" [] c = "A" -> "a" [] OTHER -> c

Lower(s) == [i \in 1..Len(s) |-> LowerChar(s[i])]

\* str.endswith(suffix)
EndsWith(s, suffix) ==
    /\ Len(s) >= Len(suffix)
    /\ SubSeq(s, Len(s) - Len(suffix) + 1, Len(s)) = suffix

RECURSIVE Replace(_, _, _)
\* str.replace(old, new): every non-overlapping occurrence, left to right
Replace(s, old, new) ==
    IF Len(s) < Len(old) THEN s
    ELSE IF SubSeq(s, 1, Len(old)) = old
    THEN new \o Replace(SubSeq(s, Len(old) + 1, Len(s)), old, new)
    ELSE <<s[1]>> \o Replace(Tail(s), old, new)

DotTxt == <<".", "t", "x", "t">>

DotDocx == <<".", "d", "o", "c", "x">>

DotXlsx == <<".", "x", "l", "s", "x">>

\* os.path.join(folder, name) for a name without a separator
Join(folder, name) == <<folder, name>>

\* the directory of the script or executable
SearchPath == "search_path"

None == "None"

\* `if not txt_input.lower().endswith(".txt"): txt_input += ".txt"`
WithTxt(typed) ==
    IF ~EndsWith(Lower(typed), DotTxt) THEN typed \o DotTxt ELSE typed

\* os.path.join(output_folder, txt_name.replace(".txt", ".docx"))
DocxPath(output_folder, txt_name) ==
    Join(output_folder, Replace(txt_name, DotTxt, DotDocx))

\* os.path.join(output_folder, txt_name.replace('.txt', '.xlsx'))
ExcelPath(output_folder, txt_name) ==
    Join(output_folder, Replace(txt_name, DotTxt, DotXlsx))

\* the existence check left out
IsFileAlways(path, fs) == TRUE

\* os.path.isfile(path)
IsFile(path, fs) == path \in fs

\* ---------------------------------------------------------------- inputs
\* characters of the exhaustively enumerated lines
Chars == {"a", "1", ".", " ", "$", "p"}

AllLines == UNION {[1..n -> Chars] : n \in 0..MaxLen}

\* the lines of the documented scenarios, and a few more
LineDrinks == <<"D", "r", "i", "n", "k", "s">>

LineCoke == <<"C", "o", "k", "e", " ", "2", "p", "c", "s", " ", "$", "3", ".", "0", "0">>

LineWater == <<"W", "a", "t", "e", "r", " ", "$", "1", ".", "5", "0">>

LineSnack == <<"S", "n", "a", "c", "k", " ", "$", "1", " ", "$", "2">>

LineItemAbc == <<"I", "t", "e", "m", " ", "$", "a", "b", "c">>

LineTea == <<"T", "e", "a", " ", "$", "1", ".", "2", ".", "3">>

SampleLines ==
    {LineDrinks, LineCoke, LineWater, LineSnack, LineItemAbc, LineTea,
     <<" ", " ">>, <<>>}

SampleFiles == UNION {[1..n -> SampleLines] : n \in 0..MaxLines}

NameChars == {"a", ".", "t", "x", "T"}

Names == UNION {[1..n -> NameChars] : n \in 1..MaxName}

\* files that may lie in the search directory
SamplePaths == {
    Join(SearchPath, <<"a", ".", "t", "x", "t">>),
    Join(SearchPath, <<"a", ".", "T", "x", "t">>),
    Join(SearchPath, <<"t", ".", "t", "x", "t">>) }

\* ----------------------------------------------------------- specification
MainIdle ==
    /\ mpc = "prompt"
    /\ txt_input = None
    /\ file_path = None
    /\ title_input = None
    /\ files = {}
    /\ docx_path = None
    /\ excel_path = None

PassStart ==
    /\ idx = 0
    /\ total_lines = 0
    /\ valid_lines = 0
    /\ grand_total = 0
    /\ excel_rows = <<>>
    /\ error_lines = <<>>
    /\ pc = "loop"

\* a file of one arbitrary line, or a file of sample lines
Init ==
    /\ lines \in {<<l>> : l \in AllLines} \cup SampleFiles
    /\ PassStart
    /\ MainIdle

Next == ProcessLine \/ Finish

Spec == Init /\ [][Next]_vars

\* ------------------------------------------------------------ run_main_loop
\* ask_txt_filename() and the ".txt" suffix; cancelling leaves the program
AskName ==
    /\ mpc = "prompt"
    /\ \/ /\ mpc' = "exit"
          /\ UNCHANGED <<txt_input, file_path>>
       \/ \E typed \in Names :
             /\ txt_input' = WithTxt(typed)
             /\ file_path' = Join(SearchPath, WithTxt(typed))
             /\ mpc' = "check"
    /\ UNCHANGED <<title_input, files, docx_path, excel_path>>
    /\ UNCHANGED passVars

\* `if not os.path.isfile(file_path): messagebox.showerror(...)`
CheckFile ==
    /\ mpc = "check"
    /\ mpc' = IF ~IsFile(file_path, files) THEN "error" ELSE "title"
    /\ UNCHANGED <<txt_input, file_path, title_input, files, docx_path, excel_path>>
    /\ UNCHANGED passVars

\* the error box is dismissed: `continue`, back to the file-name prompt (the
\* next iteration overwrites txt_input and file_path before reading them)
Dismiss ==
    /\ mpc = "error"
    /\ mpc' = "prompt"
    /\ txt_input' = None
    /\ file_path' = None
    /\ UNCHANGED <<title_input, files, docx_path, excel_path>>
    /\ UNCHANGED passVars

\* ask_bill_title(), "PRODUCTS" when nothing was entered
AskTitle ==
    /\ mpc = "title"
    /\ \E t \in {None, "", "Menu"} :
          title_input' = IF t = None \/ t = "" THEN "PRODUCTS" ELSE t
    /\ mpc' = "process"
    /\ UNCHANGED <<txt_input, file_path, files, docx_path, excel_path>>
    /\ UNCHANGED passVars

\* process_txt_file(file_path, search_path, txt_input, title_input): both
\* documents are saved and their paths returned
Process ==
    /\ mpc = "process"
    /\ docx_path' = DocxPath(SearchPath, txt_input)
    /\ excel_path' = ExcelPath(SearchPath, txt_input)
    /\ files' = files \cup {DocxPath(SearchPath, txt_input),
                            ExcelPath(SearchPath, txt_input)}
    /\ mpc' = "result"
    /\ UNCHANGED <<txt_input, file_path, title_input>>
    /\ UNCHANGED passVars

\* show_result_window: on_close leaves, on_continue enters run_main_loop anew
ShowResult ==
    /\ mpc = "result"
    /\ \/ /\ mpc' = "exit"
          /\ UNCHANGED <<txt_input, file_path, title_input, docx_path, excel_path>>
       \/ /\ mpc' = "prompt"
          /\ txt_input' = None
          /\ file_path' = None
          /\ title_input' = None
          /\ docx_path' = None
          /\ excel_path' = None
    /\ UNCHANGED files
    /\ UNCHANGED passVars

PassIdle ==
    /\ lines = <<>>
    /\ PassStart

InitMain ==
    /\ mpc = "prompt"
    /\ txt_input = None
    /\ file_path = None
    /\ title_input = None
    /\ files \in SUBSET SamplePaths
    /\ docx_path = None
    /\ excel_path = None
    /\ PassIdle

NextMain == AskName \/ CheckFile \/ Dismiss \/ AskTitle \/ Process \/ ShowResult

SpecMain == InitMain /\ [][NextMain]_vars

\* ------------------------------------------------------------------ claims
\* the for loop is about to consume a line
Stepping == pc = "loop" /\ idx < Len(lines)

\* that line, stripped
CurText == Strip(lines[idx + 1])

Item(name, qty, price) == [typ |-> "item", name |-> name, qty |-> qty, price |-> price]

Category(label) == [typ |-> "category", name |-> label, qty |-> <<>>, price |-> <<>>]

Diagnostic(i, kind, text) == [idx |-> i, kind |-> kind, text |-> text]

\* C1: a non-blank stripped line with at most one '$' is classified in this
\* order: no match and no '$' gives a Category row labelled with the whole
\* text; else a full match gives an Item row of the full pattern's stripped
\* groups; else a short match gives an Item row with an empty quantity; else
\* one 'unable to parse' error with the line's index and text, and no row.
C1_DecisionOrder ==
    [][ (Stepping /\ CurText # <<>> /\ Count(CurText, "$") <= 1) =>
          LET f == FullMatch(CurText)
              s == ShortMatch(CurText)
          IN  IF ~f.ok /\ ~s.ok /\ Count(CurText, "$") = 0
              THEN /\ excel_rows' = excel_rows \o <<Category(CurText)>>
                   /\ error_lines' = error_lines
              ELSE IF f.ok
              THEN excel_rows' = excel_rows \o
                      <<Item(Strip(f.name), Strip(f.qty), Strip(f.price))>>
              ELSE IF s.ok
              THEN excel_rows' = excel_rows \o
                      <<Item(Strip(s.name), <<>>, Strip(s.price))>>
              ELSE /\ error_lines' = error_lines \o
                      <<Diagnostic(idx + 1, "unparse", CurText)>>
                   /\ excel_rows' = excel_rows ]_vars

\* C1 witness: a category, a full item, a short item and an unparsable line
\* have all been classified
C1_Witness ==
    /\ pc = "done"
    /\ lines = <<LineDrinks, LineCoke, LineWater, LineItemAbc>>
    /\ excel_rows = <<Category(LineDrinks),
                      Item(<<"C", "o", "k", "e">>, <<"2", "p", "c", "s">>,
                           <<"3", ".", "0", "0">>),
                      Item(<<"W", "a", "t", "e", "r">>, <<>>, <<"1", ".", "5", "0">>)>>
    /\ error_lines = <<Diagnostic(4, "unparse", LineItemAbc)>>

\* the '$' of a line is followed by no digit and no dot
NonNumericPrice(t) ==
    \A d \in 1..Len(t) :
        t[d] = "$" => (d = Len(t) \/ t[d + 1] \notin Digits \cup {"."})

\* C2 as stated: the single line "Item $abc" yields the Item row
\* ("Item", "", "abc"), one 'price parse failed' error for line 1,
\* validLines = 0 and grandTotal = 0.
C2_AsStated ==
    (pc = "done" /\ lines = <<LineItemAbc>>) =>
        /\ excel_rows = <<Item(<<"I", "t", "e", "m">>, <<>>, <<"a", "b", "c">>)>>
        /\ error_lines = <<Diagnostic(1, "price", <<"a", "b", "c">>)>>
        /\ valid_lines = 0
        /\ grand_total = 0

\* C2 amended: a one-line file whose line has one '$' followed by non-numeric
\* text (such as "Item $abc") matches neither pattern: it yields no row and
\* one 'unable to parse' error for line 1, validLines = 0, grandTotal = 0.
C2_NonNumericUnparsed ==
    (/\ pc = "done"
     /\ Len(lines) = 1
     /\ Count(Strip(lines[1]), "$") = 1
     /\ NonNumericPrice(Strip(lines[1]))) =>
        /\ excel_rows = <<>>
        /\ error_lines = <<Diagnostic(1, "unparse", Strip(lines[1]))>>
        /\ valid_lines = 0
        /\ grand_total = 0

\* C2 witness: "Item $abc" has been processed
C2_Witness ==
    /\ pc = "done"
    /\ lines = <<LineItemAbc>>
    /\ error_lines = <<Diagnostic(1, "unparse", LineItemAbc)>>

\* a run of digits and dots that is no number: several dots, or no digit
Unparsable(price) ==
    /\ price # <<>>
    /\ \A n \in 1..Len(price) : price[n] \in Digits \cup {"."}
    /\ \/ Count(price, ".") > 1
       \/ \A n \in 1..Len(price) : price[n] = "."

\* the groups the item of the current line is built from
CurMatch == IF FullMatch(CurText).ok THEN FullMatch(CurText) ELSE ShortMatch(CurText)

\* C3: when the captured price of an emitted Item is no floating-point number,
\* the Item row is still appended with that price, exactly one 'price parse
\* failed' error with the line index and the price is appended, validLines and
\* grandTotal stay as they were, and the loop goes on.
C3_PriceParseFailure ==
    [][ (/\ Stepping
         /\ CurText # <<>>
         /\ Count(CurText, "$") <= 1
         /\ CurMatch.ok
         /\ Unparsable(CurMatch.price)) =>
          /\ excel_rows' = excel_rows \o
                <<Item(Strip(CurMatch.name), Strip(CurMatch.qty), CurMatch.price)>>
          /\ error_lines' = error_lines \o
                <<Diagnostic(idx + 1, "price", CurMatch.price)>>
          /\ valid_lines' = valid_lines
          /\ grand_total' = grand_total
          /\ idx' = idx + 1
          /\ pc' = "loop" ]_vars

\* C3 witness: "Tea $1.2.3" left its row and its error, and the next line
\* was processed after it
C3_Witness ==
    /\ lines = <<LineTea, LineWater>>
    /\ idx = 2
    /\ excel_rows[1] = Item(<<"T", "e", "a">>, <<>>, <<"1", ".", "2", ".", "3">>)
    /\ error_lines = <<Diagnostic(1, "price", <<"1", ".", "2", ".", "3">>)>>
    /\ valid_lines = 1

\* C4: a stripped line with more than one '$' adds exactly one 'multiple
\* currency markers' error with its 1-based index and stripped text, no row,
\* and no change to validLines or grandTotal, whatever the patterns match.
C4_MultipleMarkers ==
    [][ (Stepping /\ Count(CurText, "$") > 1) =>
          /\ error_lines' = error_lines \o <<Diagnostic(idx + 1, "multi", CurText)>>
          /\ excel_rows' = excel_rows
          /\ valid_lines' = valid_lines
          /\ grand_total' = grand_total ]_vars

\* C4 witness: "Snack $1 $2", which the short pattern matches, was rejected
C4_Witness ==
    /\ pc = "done"
    /\ lines = <<LineSnack>>
    /\ ShortMatch(LineSnack).ok
    /\ error_lines = <<Diagnostic(1, "multi", LineSnack)>>
    /\ excel_rows = <<>>

\* C5: the pass visits every line: totalLines counts each physical line,
\* blank and failing ones included, and equals their number at completion;
\* no line stops the loop; a line empty after stripping adds no row, no error
\* and changes no other counter; the empty input gives all-zero results.
C5_EveryLineCounted ==
    [][ /\ total_lines = idx
        /\ total_lines' = idx'
        /\ Stepping => (idx' = idx + 1 /\ total_lines' = total_lines + 1 /\ pc' = "loop")
        /\ pc' = "done" => total_lines' = Len(lines')
        /\ (pc' = "done" /\ lines' = <<>>) =>
              /\ total_lines' = 0 /\ valid_lines' = 0 /\ grand_total' = 0
              /\ excel_rows' = <<>> /\ error_lines' = <<>>
        /\ (Stepping /\ CurText = <<>>) =>
              UNCHANGED <<valid_lines, grand_total, excel_rows, error_lines>> ]_vars

\* C5 witness: a file with a blank line, a whitespace-only line, a failing
\* line and an item was read to its end
C5_Witness ==
    /\ pc = "done"
    /\ lines = <<<<>>, <<" ", " ">>, LineSnack, LineWater>>
    /\ total_lines = 4
    /\ Len(excel_rows) = 1
    /\ Len(error_lines) = 1

\* indices of the Item rows
ItemRows(rows) == {j \in 1..Len(rows) : rows[j].typ = "item"}

\* indices of the Item rows whose price is a number
PricedRows(rows) == {j \in ItemRows(rows) : FloatOk(rows[j].price)}

RECURSIVE PriceSum(_, _)
\* the sum of the prices of the rows in S, taken in no particular order
PriceSum(rows, S) ==
    IF S = {} THEN 0
    ELSE LET j == CHOOSE j \in S : TRUE
         IN  FloatVal(rows[j].price) + PriceSum(rows, S \ {j})

Accounted(valid, total, rows, count) ==
    /\ valid = Cardinality(PricedRows(rows))
    /\ total = PriceSum(rows, PricedRows(rows))
    /\ valid <= Cardinality(ItemRows(rows))
    /\ Cardinality(ItemRows(rows)) <= count

\* C6: before and after every step validLines is the number of Item rows
\* emitted so far whose price parsed, grandTotal is the sum of exactly those
\* prices in any order, validLines <= Item rows <= totalLines, and no counter
\* ever decreases.
C6_CountersAccount ==
    [][ /\ Accounted(valid_lines, grand_total, excel_rows, total_lines)
        /\ Accounted(valid_lines', grand_total', excel_rows', total_lines')
        /\ valid_lines' >= valid_lines
        /\ grand_total' >= grand_total
        /\ total_lines' >= total_lines ]_vars

\* C6 witness: a category, two priced items (3.00 + 1.50) and one item whose
\* price is no number
C6_Witness ==
    /\ pc = "done"
    /\ lines = <<LineDrinks, LineCoke, LineTea, LineWater>>
    /\ Cardinality(ItemRows(excel_rows)) = 3
    /\ valid_lines = 2
    /\ grand_total = 45 * Pow10(FracDigits - 1)

\* the rows line n gives rise to
LineRows(n) ==
    LET t == Strip(lines[n])
        c == Classify(t)
    IN  IF t = <<>> \/ Count(t, "$") > 1 \/ c.kind = "error" THEN <<>>
        ELSE IF c.kind = "category" THEN <<Category(t)>>
        ELSE <<Item(Strip(c.name), Strip(c.qty), Strip(c.price))>>

\* the errors line n gives rise to
LineErrors(n) ==
    LET t == Strip(lines[n])
        c == Classify(t)
    IN  IF t = <<>> THEN <<>>
        ELSE IF Count(t, "$") > 1 THEN <<Diagnostic(n, "multi", t)>>
        ELSE IF c.kind = "error" THEN <<Diagnostic(n, "unparse", t)>>
        ELSE IF c.kind = "item" /\ ~FloatOk(c.price)
        THEN <<Diagnostic(n, "price", c.price)>>
        ELSE <<>>

RECURSIVE RowsUpTo(_)
RowsUpTo(n) == IF n = 0 THEN <<>> ELSE RowsUpTo(n - 1) \o LineRows(n)

RECURSIVE ErrorsUpTo(_)
ErrorsUpTo(n) == IF n = 0 THEN <<>> ELSE ErrorsUpTo(n - 1) \o LineErrors(n)

\* C7: rows and errors each keep the order of the input lines, and each error
\* carries the 1-based physical position of its line, blank lines counted, so
\* the indices never decrease along the errors list.
C7_InputOrder ==
    /\ excel_rows = RowsUpTo(idx)
    /\ error_lines = ErrorsUpTo(idx)
    /\ \A a, b \in 1..Len(error_lines) :
          a < b => error_lines[a].idx <= error_lines[b].idx
    /\ \A a \in 1..Len(error_lines) : error_lines[a].idx \in 1..idx

\* C7 witness: after a blank first line, two rows of different kinds and two
\* errors were collected
C7_Witness ==
    /\ pc = "done"
    /\ lines = <<<<>>, LineTea, LineDrinks, LineSnack>>
    /\ excel_rows = <<Item(<<"T", "e", "a">>, <<>>, <<"1", ".", "2", ".", "3">>),
                      Category(LineDrinks)>>
    /\ error_lines = <<Diagnostic(2, "price", <<"1", ".", "2", ".", "3">>),
                       Diagnostic(4, "multi", LineSnack)>>

\* a file name with its extension replaced
ExtReplaced(name, ext) ==
    LET dots == {i \in 1..Len(name) : name[i] = "."}
    IN  IF dots = {} THEN name \o ext
        ELSE SubSeq(name, 1, SetMax(dots) - 1) \o ext

\* C8: for every accepted file name the returned report and sheet paths are
\* the input file's name with its extension replaced by ".docx" and ".xlsx",
\* in the directory of the input file.
C8_OutputNames ==
    mpc = "result" =>
        /\ docx_path = <<file_path[1], ExtReplaced(txt_input, DotDocx)>>
        /\ excel_path = <<file_path[1], ExtReplaced(txt_input, DotXlsx)>>

\* C9: process_txt_file is entered only for a path whose existence check
\* succeeded in the same iteration; when the file does not exist the error box
\* is shown, nothing is classified or written for that name, and the loop is
\* back at the file-name prompt.
C9_OnlyExistingFiles ==
    [][ /\ mpc = "process" => file_path \in files
        /\ mpc' = "process" => (mpc = "title" /\ file_path' \in files')
        /\ mpc' = "title" =>
              (mpc = "check" /\ file_path \in files /\ file_path' = file_path)
        /\ (mpc = "check" /\ file_path \notin files) =>
              (mpc' = "error" /\ files' = files /\ docx_path' = None
                              /\ excel_path' = None)
        /\ mpc = "error" =>
              (mpc' = "prompt" /\ files' = files /\ docx_path' = None
                               /\ excel_path' = None) ]_vars

\* C9 witness: the error box is up for a file that does not exist
C9_Witness ==
    /\ mpc = "error"
    /\ file_path = Join(SearchPath, <<"a", ".", "t", "x", "t">>)
    /\ file_path \notin files
    /\ docx_path = None

\* C10: on a stripped line with exactly one '$' that the full pattern
\* matches, the short pattern matches too, both matches end at the end of the
\* price and capture the same price; the Item is built from the full
\* pattern's groups: the shortest name and a non-empty quantity, never the
\* short pattern's longer name with an empty quantity.
C10_FullBeforeShort ==
    [][ (Stepping /\ Count(CurText, "$") = 1 /\ FullMatch(CurText).ok) =>
          LET f == FullMatch(CurText)
              s == ShortMatch(CurText)
          IN  /\ s.ok
              /\ s.end = f.end
              /\ s.price = f.price
              /\ \A p \in FullParses(CurText) : Len(f.name) <= p.k
              /\ f.qty # <<>>
              /\ Len(s.name) > Len(f.name)
              /\ excel_rows' = excel_rows \o
                    <<Item(Strip(f.name), Strip(f.qty), Strip(f.price))>>
              /\ excel_rows'[Len(excel_rows')] #
                    Item(Strip(s.name), <<>>, Strip(s.price)) ]_vars

\* C10 witness: "Coke 2pcs $3.00", which both patterns match, became the
\* item (Coke, 2pcs, 3.00)
C10_Witness ==
    /\ pc = "done"
    /\ lines = <<LineCoke>>
    /\ ShortMatch(LineCoke).name = <<"C", "o", "k", "e", " ", "2", "p", "c", "s">>
    /\ excel_rows = <<Item(<<"C", "o", "k", "e">>, <<"2", "p", "c", "s">>,
                           <<"3", ".", "0", "0">>)>>

\* position of the first '$' of t
DollarAt(t) == SetMin({d \in 1..Len(t) : t[d] = "$"})

\* last index of the digits and dots that follow the '$' of t
PriceEndOf(t) ==
    SetMax({j \in DollarAt(t)..Len(t) :
               \A n \in (DollarAt(t) + 1)..j : t[n] \in Digits \cup {"."}})

\* t reads <name> ... $<price><more text>: something stands before the '$',
\* a digit or dot right after it, and the line goes on after the price
HasTrailingText(t) ==
    /\ DollarAt(t) > 1
    /\ PriceEndOf(t) > DollarAt(t)
    /\ PriceEndOf(t) < Len(t)

\* C11: the patterns are matched against a prefix of the stripped line, so on
\* a line with exactly one '$' that matches a pattern the text after the
\* captured price is ignored: the line gives the same Item row and the same
\* change of validLines and grandTotal as the line cut right after the price,
\* and no error is recorded for the trailing text.
C11_TrailingTextIgnored ==
    [][ (Stepping /\ Count(CurText, "$") = 1 /\ HasTrailingText(CurText)) =>
          LET cut == SubSeq(CurText, 1, PriceEndOf(CurText))
              c   == Classify(cut)
              acc == PriceStep(valid_lines, grand_total, c.price)
          IN  /\ c.kind = "item"
              /\ excel_rows' = excel_rows \o
                    <<Item(Strip(c.name), Strip(c.qty), Strip(c.price))>>
              /\ valid_lines' = acc.valid
              /\ grand_total' = acc.total
              /\ error_lines' =
                    IF acc.failed
                    THEN error_lines \o <<Diagnostic(idx + 1, "price", c.price)>>
                    ELSE error_lines ]_vars

\* C11 witness: "a 1$1a" became the item (a, 1, 1) and counted toward the
\* total, its trailing "a" leaving no trace
C11_Witness ==
    /\ pc = "done"
    /\ lines = <<<<"a", " ", "1", "$", "1", "a">>>>
    /\ excel_rows = <<Item(<<"a">>, <<"1">>, <<"1">>)>>
    /\ error_lines = <<>>
    /\ valid_lines = 1
    /\ grand_total = Pow10(FracDigits)

====
